---- MODULE Spec2Model ----
(***************************************************************************)
(* MIDI output adapter of Apollo (namespace platf).                        *)
(*                                                                         *)
(* The Windows backend (src/platform/windows/midi.cpp) keeps one           *)
(* process-wide HMIDIOUT, midi_handle, and drives the winmm output API.    *)
(* The platform is modelled by its device table (devs), by the handles it  *)
(* has handed out (live, closed, nextHandle) and by the result codes it    *)
(* returns, which are inputs of the actions.  Every handler is one action; *)
(* the winmm calls a handler makes are recorded, in order, in calls.       *)
(***************************************************************************)
EXTENDS Integers, Sequences, FiniteSets, TLC

\* ---------------------------------------------------------------- bounds
MaxDevs == 2        \* devices the platform can report
MaxOpens == 2       \* handles the platform hands out in one run
MaxLen == 4         \* longest payload given to midi_send

\* ------------------------------------------------------------- constants
NULL == 0                  \* nullptr
MMSYSERR_NOERROR == 0

\* MMRESULT codes the platform answers with: success and a failure
\* (MMSYSERR_ALLOCATED).
MMResults == {MMSYSERR_NOERROR, 4}

\* uint8_t values used in short payloads, and the bytes of a SysEx message
Bytes == {64, 144}
SysExByte(i, n) == IF i = 1 THEN 240 ELSE IF i = n THEN 247 ELSE 126

\* ------------------------------------------------------------ device names
\* UTF-16 code units of a device's szPname (without the terminating NUL).
W_AUTO == <<97, 117, 116, 111>>          \* L"auto"
W_SYNTH == <<83, 233>>                   \* L"Sé"
WideNames == {W_AUTO, W_SYNTH}

\* std::string values (bytes)
AUTO == <<97, 117, 116, 111>>            \* "auto"
EMPTY == <<>>                            \* ""
SYNTH == <<83, 195, 169>>                \* "S\xc3\xa9", UTF-8 of W_SYNTH
NOPE == <<83, 233>>                      \* "S\xe9", the name of no device
DeviceNames == {AUTO, EMPTY, SYNTH, NOPE}

\* WideCharToMultiByte(CP_UTF8, ...) of one code unit below 0x800
Utf8Unit(u) ==
  IF u < 128 THEN <<u>> ELSE <<192 + (u \div 64), 128 + (u % 64)>>

RECURSIVE Utf8(_)
Utf8(w) == IF w = <<>> THEN <<>> ELSE Utf8Unit(Head(w)) \o Utf8(Tail(w))

\* The two WideCharToMultiByte calls of midi_list_devices: the first
\* returns len, the byte count including the terminating NUL; name gets
\* len - 1 bytes.
WideToName(w) ==
  LET out == Utf8(w) \o <<0>>
      len == Len(out)
  IN SubSeq(out, 1, len - 1)

\* ---------------------------------------------------------- platform calls
Call(fn, h, arg, res) == [fn |-> fn, h |-> h, arg |-> arg, res |-> res]

DeviceTables ==
  UNION {[1..n -> [szPname : WideNames, capsOk : BOOLEAN]] : n \in 0..MaxDevs}

VARIABLES
  midi_handle,   \* static HMIDIOUT midi_handle
  devs,          \* platform: the output devices, index i at position i+1
  live,          \* platform: handles opened and not closed
  closed,        \* platform: handles that midiOutClose was called on
  nextHandle,    \* platform: the next handle midiOutOpen hands out
  peak,          \* platform: most handles live at once during the last call
  op,            \* the last adapter call and its arguments
  ret,           \* the last integer status an adapter call returned
  listed,        \* the last result of midi_list_devices
  calls,         \* the winmm calls the last adapter call made, in order
  backend,       \* the platform the adapter was built for
  pc             \* the number of steps of the usage scenario done so far

vars == <<midi_handle, devs, live, closed, nextHandle, peak, op, ret, listed,
          calls, backend, pc>>

\* --------------------------------------------------- platform handle table
\* Effect of a sequence of winmm calls on the platform's handle table.
RECURSIVE ApplyCalls(_, _)
ApplyCalls(t, cs) ==
  IF cs = <<>> THEN t
  ELSE LET c == Head(cs)
           l == IF c.fn = "midiOutOpen" /\ c.res = MMSYSERR_NOERROR
                  THEN t.live \cup {c.h}
                ELSE IF c.fn = "midiOutClose" THEN t.live \ {c.h}
                ELSE t.live
           k == IF c.fn = "midiOutClose" THEN t.closed \cup {c.h} ELSE t.closed
           p == IF Cardinality(l) > t.peak THEN Cardinality(l) ELSE t.peak
       IN ApplyCalls([live |-> l, closed |-> k, peak |-> p], Tail(cs))

Table == [live |-> live, closed |-> closed, peak |-> Cardinality(live)]

\* ------------------------------------------------------- midi_list_devices
RECURSIVE ListFrom(_, _)
ListFrom(d, i) ==
  IF i >= Len(d) THEN <<>>
  ELSE (IF d[i + 1].capsOk
          THEN <<[id |-> i, name |-> WideToName(d[i + 1].szPname)]>>
          ELSE <<>>) \o ListFrom(d, i + 1)

midi_list_devices_Positions(d) ==
  [k \in 1..Len(ListFrom(d, 0)) |-> [id |-> k - 1, name |-> ListFrom(d, 0)[k].name]]

midi_list_devices(d) == ListFrom(d, 0)

ListCalls(d) ==
  <<Call("midiOutGetNumDevs", NULL, 0, Len(d))>> \o
  [i \in 1..Len(d) |->
     Call("midiOutGetDevCapsW", NULL, i - 1,
          IF d[i].capsOk THEN MMSYSERR_NOERROR ELSE 4)]

\* ------------------------------------------------------------- midi_close
CloseCalls_ResetOnly(h) ==
  IF h # NULL THEN <<Call("midiOutReset", h, 0, MMSYSERR_NOERROR)>> ELSE <<>>

CloseCalls_CloseFirst(h) ==
  IF h # NULL
    THEN <<Call("midiOutClose", h, 0, MMSYSERR_NOERROR),
           Call("midiOutReset", h, 0, MMSYSERR_NOERROR)>>
    ELSE <<>>

CloseCalls(h) ==
  IF h # NULL
    THEN <<Call("midiOutReset", h, 0, MMSYSERR_NOERROR),
           Call("midiOutClose", h, 0, MMSYSERR_NOERROR)>>
    ELSE <<>>

HandleAfterClose_Keeps(h) == h

HandleAfterClose(h) == NULL

\* -------------------------------------------------------------- midi_open
Enumerates_NoSentinel(device_name) == device_name # EMPTY

Enumerates(device_name) == device_name # AUTO /\ device_name # EMPTY

RECURSIVE FindDevice_Differs(_, _)
FindDevice_Differs(devices, device_name) ==
  IF devices = <<>> THEN 0
  ELSE IF Head(devices).name # device_name THEN Head(devices).id
  ELSE FindDevice_Differs(Tail(devices), device_name)

RECURSIVE FindDevice(_, _)
FindDevice(devices, device_name) ==
  IF devices = <<>> THEN 0
  ELSE IF Head(devices).name = device_name THEN Head(devices).id
  ELSE FindDevice(Tail(devices), device_name)

SelectDevice(device_name, d) ==
  IF Enumerates(device_name)
    THEN FindDevice(midi_list_devices(d), device_name)
    ELSE 0

NoDevices_Unchecked(num_devs) == FALSE

NoDevices(num_devs) == num_devs = 0

HandleAfterOpen_KeepsWritten(result, written) == written

HandleAfterOpen(result, written) ==
  IF result # MMSYSERR_NOERROR THEN NULL ELSE written

\* midi_open(device_name) from handle h and device table d, when midiOutOpen
\* (if reached) answers result and stores written through its first argument.
OpenOutcome(device_name, h, d, result, written) ==
  LET c1 == IF h # NULL THEN CloseCalls(h) ELSE <<>>
      h1 == IF h # NULL THEN HandleAfterClose(h) ELSE h
      c2 == IF Enumerates(device_name) THEN ListCalls(d) ELSE <<>>
      device_id == SelectDevice(device_name, d)
      c3 == <<Call("midiOutGetNumDevs", NULL, 0, Len(d))>>
  IN IF NoDevices(Len(d))
       THEN [handle |-> h1, ret |-> -1, calls |-> c1 \o c2 \o c3]
       ELSE [handle |-> HandleAfterOpen(result, written),
             ret |-> IF result # MMSYSERR_NOERROR THEN -1 ELSE 0,
             calls |-> c1 \o c2 \o c3 \o
                       <<Call("midiOutOpen", written, device_id, result)>>]

\* What midiOutOpen may store in *lphmo: a fresh handle on success; on
\* failure nothing (the handle stays as it was) or a value that is no handle.
OpenWrites(result, h) ==
  IF result = MMSYSERR_NOERROR THEN {nextHandle} ELSE {h, nextHandle}

NoArgs == [device_name |-> EMPTY, enabled |-> FALSE,
           isNull |-> FALSE, data |-> <<>>, length |-> 0]

Apply(outcome, o) ==
  \E t \in {ApplyCalls(Table, outcome.calls)} :
     /\ midi_handle' = outcome.handle
     /\ live' = t.live
     /\ closed' = t.closed
     /\ peak' = t.peak
     /\ nextHandle' = IF nextHandle \in t.live THEN nextHandle + 1 ELSE nextHandle
     /\ calls' = outcome.calls
     /\ op' = o

MidiOpen(device_name) ==
  \E result \in MMResults :
    /\ result = MMSYSERR_NOERROR => nextHandle <= MaxOpens
    /\ \E written \in OpenWrites(result, NULL) :
         \E o \in {OpenOutcome(device_name, midi_handle, devs, result, written)} :
            /\ Apply(o, [NoArgs EXCEPT !.device_name = device_name] @@ [name |-> "open"])
            /\ ret' = o.ret
    /\ listed' = <<>>
    /\ UNCHANGED devs

MidiClose ==
  /\ Apply([handle |-> IF midi_handle # NULL THEN HandleAfterClose(midi_handle)
                       ELSE midi_handle,
            calls |-> IF midi_handle # NULL THEN CloseCalls(midi_handle) ELSE <<>>],
           NoArgs @@ [name |-> "close"])
  /\ listed' = <<>>
  /\ UNCHANGED <<devs, ret>>

\* ------------------------------------------------------------ midi_deinit
MidiDeinit ==
  /\ Apply([handle |-> IF midi_handle # NULL THEN HandleAfterClose(midi_handle)
                       ELSE midi_handle,
            calls |-> IF midi_handle # NULL THEN CloseCalls(midi_handle) ELSE <<>>],
           NoArgs @@ [name |-> "deinit"])
  /\ listed' = <<>>
  /\ UNCHANGED <<devs, ret>>

\* ------------------------------------------------------- midi_list_devices
MidiListDevices ==
  /\ Apply([handle |-> midi_handle, calls |-> ListCalls(devs)],
           NoArgs @@ [name |-> "list"])
  /\ listed' = midi_list_devices(devs)
  /\ UNCHANGED <<devs, ret>>

\* -------------------------------------------------------------- midi_init
\* config::input.midi and config::input.midi_device are read here only.
OpensConfigured_DeviceOnly(enabled, device) == device # EMPTY

OpensConfigured(enabled, device) == enabled /\ device # EMPTY

\* midi_init logs what midi_open returned and returns 0.
InitStatus_Propagates(open_status) == open_status

InitStatus(open_status) == 0

InitOutcome(enabled, device, h, d, result, written) ==
  LET c0 == ListCalls(d)
      o == OpenOutcome(device, h, d, result, written)
  IN IF OpensConfigured(enabled, device)
       THEN [handle |-> o.handle, ret |-> InitStatus(o.ret), calls |-> c0 \o o.calls]
       ELSE [handle |-> h, ret |-> 0, calls |-> c0]

MidiInit(enabled, device) ==
  \E result \in MMResults :
    /\ result = MMSYSERR_NOERROR => nextHandle <= MaxOpens
    /\ \E written \in OpenWrites(result, NULL) :
         \E o \in {InitOutcome(enabled, device, midi_handle, devs, result, written)} :
            /\ Apply(o, [NoArgs EXCEPT !.device_name = device, !.enabled = enabled]
                        @@ [name |-> "init"])
            /\ ret' = o.ret
    /\ listed' = <<>>
    /\ UNCHANGED devs

\* -------------------------------------------------------------- midi_send
\* DWORD arithmetic.  The operands are uint8_t values shifted by at most 16
\* bits, so no value leaves the 32 bits of a DWORD.
RECURSIVE BitOr(_, _)
BitOr(a, b) ==
  IF a = 0 THEN b
  ELSE IF b = 0 THEN a
  ELSE (IF a % 2 = 1 \/ b % 2 = 1 THEN 1 ELSE 0) + 2 * BitOr(a \div 2, b \div 2)

RECURSIVE Pow2(_)
Pow2(n) == IF n = 0 THEN 1 ELSE 2 * Pow2(n - 1)

Shl(x, n) == x * Pow2(n)

PackShort_BigEndian(data, length) ==
  LET m0 == data[1]
      m1 == IF length > 1 THEN BitOr(Shl(m0, 8), data[2]) ELSE m0
      m2 == IF length > 2 THEN BitOr(Shl(m1, 8), data[3]) ELSE m1
  IN m2

PackShort(data, length) ==
  LET m0 == data[1]
      m1 == IF length > 1 THEN BitOr(m0, Shl(data[2], 8)) ELSE m0
      m2 == IF length > 2 THEN BitOr(m1, Shl(data[3], 16)) ELSE m1
  IN m2

NoDevice_Unchecked(h) == FALSE

NoDevice(h) == h = NULL

IsShort(length) == length <= 3

Rejects_ShortOnly(isNull, length) == length = 0 \/ (isNull /\ length <= 3)

Rejects(isNull, length) == length = 0 \/ isNull

PrepareFailed_Ignored(result) == FALSE

PrepareFailed(result) == result # MMSYSERR_NOERROR

ShortStatus(result) == IF result # MMSYSERR_NOERROR THEN -1 ELSE 0

LongStatus_Ignored(result) == 0

LongStatus(result) == IF result # MMSYSERR_NOERROR THEN -1 ELSE 0

\* The calls of the SysEx path once the header has been prepared.
LongCalls_LeakOnFailure(h, length, result) ==
  IF result # MMSYSERR_NOERROR
    THEN <<Call("midiOutLongMsg", h, length, result)>>
    ELSE <<Call("midiOutLongMsg", h, length, result),
           Call("midiOutUnprepareHeader", h, length, MMSYSERR_NOERROR)>>

LongCalls(h, length, result) ==
  <<Call("midiOutLongMsg", h, length, result),
    Call("midiOutUnprepareHeader", h, length, MMSYSERR_NOERROR)>>

\* midi_send(data, length) with handle h, when the first winmm call answers
\* r1 and the second (midiOutLongMsg) answers r2.
SendOutcome(h, isNull, data, length, r1, r2) ==
  IF NoDevice(h) THEN [handle |-> h, ret |-> -1, calls |-> <<>>]
  ELSE IF Rejects(isNull, length) THEN [handle |-> h, ret |-> -1, calls |-> <<>>]
  ELSE IF IsShort(length)
    THEN [handle |-> h, ret |-> ShortStatus(r1),
          calls |-> <<Call("midiOutShortMsg", h, PackShort(data, length), r1)>>]
  ELSE IF PrepareFailed(r1)
    THEN [handle |-> h, ret |-> -1,
          calls |-> <<Call("midiOutPrepareHeader", h, length, r1)>>]
  ELSE [handle |-> h, ret |-> LongStatus(r2),
        calls |-> <<Call("midiOutPrepareHeader", h, length, r1)>>
                  \o LongCalls(h, length, r2)]

\* The answers of midiOutLongMsg, where midi_send reaches it.
LongResults(h, isNull, length, r1) ==
  IF ~NoDevice(h) /\ ~Rejects(isNull, length) /\ ~IsShort(length)
       /\ r1 = MMSYSERR_NOERROR
    THEN MMResults ELSE {MMSYSERR_NOERROR}

\* The buffers a caller passes: a null pointer with any length, or length
\* readable bytes.
Payloads ==
  UNION {[1..n -> Bytes] : n \in 0..3}
    \cup {[i \in 1..n |-> SysExByte(i, n)] : n \in 4..MaxLen}

MidiSend(isNull, data, length) ==
  \E r1 \in MMResults : \E r2 \in LongResults(midi_handle, isNull, length, r1) :
    \E o \in {SendOutcome(midi_handle, isNull, data, length, r1, r2)} :
       /\ Apply(o, [NoArgs EXCEPT !.isNull = isNull, !.data = data,
                                  !.length = length] @@ [name |-> "send"])
       /\ ret' = o.ret
       /\ listed' = <<>>
       /\ UNCHANGED devs

\* ------------------------------------------------------------ environment
\* A device is plugged in (it gets the next index) or removed (the devices
\* after it move down) between two adapter calls.
Without(d, i) == [j \in 1..(Len(d) - 1) |-> IF j < i THEN d[j] ELSE d[j + 1]]

Hotplug ==
  /\ \/ /\ Len(devs) < MaxDevs
        /\ \E e \in [szPname : WideNames, capsOk : BOOLEAN] : devs' = Append(devs, e)
     \/ \E i \in 1..Len(devs) : devs' = Without(devs, i)
  /\ op' = NoArgs @@ [name |-> "hotplug"]
  /\ calls' = <<>>
  /\ peak' = Cardinality(live)
  /\ listed' = <<>>
  /\ UNCHANGED <<midi_handle, live, closed, nextHandle, ret>>

Start ==
  /\ midi_handle = NULL
  /\ devs \in DeviceTables
  /\ live = {}
  /\ closed = {}
  /\ nextHandle = 1
  /\ peak = 0
  /\ op = NoArgs @@ [name |-> "start"]
  /\ ret = 0
  /\ listed = <<>>
  /\ calls = <<>>

\* The Windows build, called in any order with any arguments.
Init == Start /\ backend = "windows" /\ pc = 0

Free == UNCHANGED <<backend, pc>>

Next ==
  \/ (\E enabled \in BOOLEAN, device \in DeviceNames : MidiInit(enabled, device)) /\ Free
  \/ MidiDeinit /\ Free
  \/ MidiListDevices /\ Free
  \/ (\E n \in DeviceNames : MidiOpen(n)) /\ Free
  \/ MidiClose /\ Free
  \/ (\E data \in Payloads : MidiSend(FALSE, data, Len(data))) /\ Free
  \/ (\E length \in 0..MaxLen : MidiSend(TRUE, <<>>, length)) /\ Free
  \/ Hotplug /\ Free

Spec == Init /\ [][Next]_vars

\* ------------------------------------------------ stub backends (Linux, macOS)
\* src/platform/linux/midi.cpp and src/platform/macos/midi.cpp keep no state
\* and call no platform API.
Stubs == {"linux", "macos"}

StubInitStatus == 0

StubOpenStatus_AutoWorks(device_name) == IF device_name = AUTO THEN 0 ELSE -1

StubOpenStatus(device_name) == -1

StubSendStatus(isNull, data, length) == -1

StubDevices == <<>>

StubCall(o) ==
  /\ op' = o
  /\ calls' = <<>>
  /\ UNCHANGED <<midi_handle, devs, live, closed, nextHandle, peak, backend, pc>>

StubInit ==
  /\ StubCall(NoArgs @@ [name |-> "init"])
  /\ ret' = StubInitStatus
  /\ listed' = <<>>

StubDeinit ==
  /\ StubCall(NoArgs @@ [name |-> "deinit"])
  /\ listed' = <<>>
  /\ UNCHANGED ret

StubListDevices ==
  /\ StubCall(NoArgs @@ [name |-> "list"])
  /\ listed' = StubDevices
  /\ UNCHANGED ret

StubOpen(device_name) ==
  /\ StubCall([NoArgs EXCEPT !.device_name = device_name] @@ [name |-> "open"])
  /\ ret' = StubOpenStatus(device_name)
  /\ listed' = <<>>

StubClose ==
  /\ StubCall(NoArgs @@ [name |-> "close"])
  /\ listed' = <<>>
  /\ UNCHANGED ret

StubSend(isNull, data, length) ==
  /\ StubCall([NoArgs EXCEPT !.isNull = isNull, !.data = data, !.length = length]
              @@ [name |-> "send"])
  /\ ret' = StubSendStatus(isNull, data, length)
  /\ listed' = <<>>

InitStub == Start /\ backend \in Stubs /\ pc = 0

NextStub ==
  \/ StubInit
  \/ StubDeinit
  \/ StubListDevices
  \/ \E n \in DeviceNames : StubOpen(n)
  \/ StubClose
  \/ \E data \in Payloads : StubSend(FALSE, data, Len(data))
  \/ \E length \in 0..MaxLen : StubSend(TRUE, <<>>, length)

SpecStub == InitStub /\ [][NextStub]_vars

\* ------------------------------------------------------------ all backends
InitAll == Start /\ backend \in Stubs \cup {"windows"} /\ pc = 0

NextAll ==
  \/ backend = "windows" /\ Next
  \/ backend \in Stubs /\ NextStub

SpecAll == InitAll /\ [][NextAll]_vars

\* --------------------------------------------------------- usage scenario
\* initialize, list_devices (at least one device found), open(device[0].name),
\* send of a 3-byte message, close, deinitialize, on the Windows build.
Step(n) == pc = n /\ pc' = n + 1 /\ UNCHANGED backend

NoteOns == [1..3 -> Bytes]

ScenarioInit ==
  Step(0) /\ \E enabled \in BOOLEAN, device \in DeviceNames : MidiInit(enabled, device)

ScenarioList ==
  Step(1) /\ midi_list_devices(devs) # <<>> /\ MidiListDevices

ScenarioOpen == Step(2) /\ MidiOpen(listed[1].name)

ScenarioSend == Step(3) /\ \E data \in NoteOns : MidiSend(FALSE, data, Len(data))

ScenarioClose == Step(4) /\ MidiClose

ScenarioDeinit == Step(5) /\ MidiDeinit

NextScenario ==
  \/ ScenarioInit
  \/ ScenarioList
  \/ ScenarioOpen
  \/ ScenarioSend
  \/ ScenarioClose
  \/ ScenarioDeinit

SpecScenario == Init /\ [][NextScenario]_vars

\* ================================================================ properties
CallsOf(fn) == SelectSeq(calls, LAMBDA c : c.fn = fn)
Count(fn) == Len(CallsOf(fn))
IsOpen == midi_handle # NULL
ValidSend == op.name = "send" /\ ~op.isNull /\ op.length >= 1

\* C1: at most one platform output handle is live at any time, also inside
\* a call: an open made while a device is open resets and closes the prior
\* handle before midiOutOpen is attempted.
OneLiveHandle ==
  /\ Cardinality(live) <= 1
  /\ peak <= 1
  /\ \A j \in DOMAIN calls, k \in DOMAIN calls :
       calls[k].fn = "midiOutOpen" /\ calls[j].fn \in {"midiOutReset", "midiOutClose"}
         => j < k

ReopenClosesFirst ==
  (midi_handle # NULL /\ op'.name = "open") =>
     /\ Len(calls') >= 2
     /\ calls'[1].fn = "midiOutReset" /\ calls'[1].h = midi_handle
     /\ calls'[2].fn = "midiOutClose" /\ calls'[2].h = midi_handle
     /\ midi_handle \notin live'

C1_AtMostOneLiveHandle == [](OneLiveHandle) /\ [][ReopenClosesFirst]_vars

C1_Witness ==
  /\ op.name = "open" /\ ret = 0
  /\ Count("midiOutClose") = 1 /\ Count("midiOutOpen") = 1
  /\ midi_handle # NULL /\ live = {midi_handle} /\ closed # {}

\* C2: a send made while no device is open returns -1 for every payload and
\* makes no platform call.
C2_SendClosedFails ==
  [][(midi_handle = NULL /\ op'.name = "send") => (ret' = -1 /\ calls' = <<>>)]_vars

C2_Witness ==
  /\ op.name = "send" /\ ~op.isNull /\ op.length = MaxLen
  /\ midi_handle = NULL /\ ret = -1 /\ calls = <<>>

\* C3: close and deinitialize leave the handle absent, and from then on the
\* handle stays absent and every send returns -1 until a platform open
\* succeeds.
OpenedNow == \E k \in DOMAIN calls : calls[k].fn = "midiOutOpen" /\ calls[k].res = MMSYSERR_NOERROR

C3_ClosedUntilOpen ==
  [][/\ op'.name \in {"close", "deinit"} => (midi_handle' = NULL /\ live' = {})
     /\ (midi_handle = NULL /\ ~OpenedNow') =>
          (midi_handle' = NULL /\ (op'.name = "send" => ret' = -1))]_vars

C3_Witness ==
  /\ op.name = "send" /\ ~op.isNull /\ op.length = 3
  /\ closed # {} /\ midi_handle = NULL /\ ret = -1

\* C4: when the platform reports zero output devices, open returns -1 for
\* every device_name and midiOutOpen is not called.
ReportsNoDevices ==
  \E k \in DOMAIN calls : calls[k].fn = "midiOutGetNumDevs" /\ calls[k].res = 0

C4_NoDevicesNoOpen ==
  (op.name = "open" /\ ReportsNoDevices) =>
     (ret = -1 /\ Count("midiOutOpen") = 0 /\ midi_handle = NULL)

C4_Witness ==
  /\ op.name = "open" /\ op.device_name = AUTO /\ ReportsNoDevices
  /\ ret = -1 /\ Count("midiOutOpen") = 0

\* C5: when midiOutOpen reports an error, open returns -1 and the handle is
\* absent afterwards, whatever the platform stored in it.
OpenFailed == \E k \in DOMAIN calls : calls[k].fn = "midiOutOpen" /\ calls[k].res # MMSYSERR_NOERROR

C5_FailedOpenClears ==
  (op.name = "open" /\ OpenFailed) => (ret = -1 /\ midi_handle = NULL /\ live = {})

C5_Witness ==
  /\ op.name = "open" /\ ret = -1 /\ midi_handle = NULL
  /\ \E k \in DOMAIN calls :
       calls[k].fn = "midiOutOpen" /\ calls[k].res # MMSYSERR_NOERROR /\ calls[k].h # NULL

\* C6: with at least one output device, an open with a name that matches no
\* enumerated device passes index 0 to midiOutOpen.
NoMatch(device_name, d) ==
  \A i \in 1..Len(d) : ~(d[i].capsOk /\ WideToName(d[i].szPname) = device_name)

FallbackCase ==
  /\ op.name = "open" /\ op.device_name \notin {AUTO, EMPTY}
  /\ NoMatch(op.device_name, devs) /\ Len(devs) >= 1

\* C6 as stated: the fallback open returns 0.
C6_FallbackReturnsZero == FallbackCase => ret = 0

\* C6 as amended: the fallback open passes index 0 to midiOutOpen and returns
\* 0 if midiOutOpen succeeds; it returns -1 only if midiOutOpen reports an
\* error.
C6_FallbackOpensDefault ==
  FallbackCase =>
    /\ Count("midiOutOpen") = 1
    /\ CallsOf("midiOutOpen")[1].arg = 0
    /\ ret = (IF CallsOf("midiOutOpen")[1].res = MMSYSERR_NOERROR THEN 0 ELSE -1)
    /\ ret = 0 => midi_handle = CallsOf("midiOutOpen")[1].h /\ midi_handle # NULL

C6_Witness ==
  /\ FallbackCase /\ ret = 0 /\ midi_handle # NULL
  /\ Len(devs) = MaxDevs /\ ~devs[1].capsOk /\ devs[2].capsOk
  /\ CallsOf("midiOutOpen")[1].arg = 0

\* C7: open("auto") and open("") have the same outcome from the same state
\* under the same platform answers; they pass index 0 and query no device
\* capabilities, even when a device is named "auto".
C7_AutoEqualsEmpty ==
  /\ \A result \in MMResults : \A written \in OpenWrites(result, NULL) :
       LET a == OpenOutcome(AUTO, midi_handle, devs, result, written)
           e == OpenOutcome(EMPTY, midi_handle, devs, result, written)
       IN /\ a = e
          /\ \A k \in DOMAIN a.calls :
               /\ a.calls[k].fn # "midiOutGetDevCapsW"
               /\ a.calls[k].fn = "midiOutOpen" => a.calls[k].arg = 0
  /\ (op.name = "open" /\ op.device_name \in {AUTO, EMPTY}) =>
       /\ Count("midiOutGetDevCapsW") = 0
       /\ \A k \in DOMAIN calls : calls[k].fn = "midiOutOpen" => calls[k].arg = 0

C7_Witness ==
  /\ op.name = "open" /\ op.device_name = AUTO /\ ret = 0
  /\ Len(devs) = MaxDevs /\ devs[2].szPname = W_AUTO /\ devs[2].capsOk
  /\ devs[1].szPname # W_AUTO
  /\ CallsOf("midiOutOpen")[1].arg = 0

\* C8: a payload of 1..3 bytes sent while a device is open is submitted as
\* exactly one short message whose word is byte0 + 256*byte1 + 65536*byte2,
\* absent bytes being 0, whatever midiOutShortMsg answers.
ByteAt(data, i) == IF i <= Len(data) THEN data[i] ELSE 0
Word(data) == ByteAt(data, 1) + 256 * ByteAt(data, 2) + 65536 * ByteAt(data, 3)

C8_ShortPacking ==
  (ValidSend /\ IsOpen /\ op.length <= 3) =>
     /\ Len(calls) = 1
     /\ calls[1].fn = "midiOutShortMsg"
     /\ calls[1].h = midi_handle
     /\ calls[1].arg = Word(op.data)
     /\ calls[1].arg < 16777216
     /\ op.data = <<144, 64>> => calls[1].arg = 16528

C8_Witness ==
  /\ ValidSend /\ IsOpen /\ op.data = <<144, 64>>
  /\ calls[1].arg = 16528 /\ calls[1].res # MMSYSERR_NOERROR /\ ret = -1

\* C9: a payload longer than 3 bytes sent while a device is open goes through
\* prepare, long message, un-prepare and never through a short message; once
\* submitted, un-prepare is called exactly once, after the submission, and a
\* failed submission still returns -1.
C9_LongPathUnprepares ==
  (ValidSend /\ IsOpen /\ op.length > 3) =>
     /\ Count("midiOutShortMsg") = 0
     /\ Count("midiOutPrepareHeader") = 1 /\ calls[1].fn = "midiOutPrepareHeader"
     /\ Count("midiOutLongMsg") = 1 =>
          /\ Count("midiOutUnprepareHeader") = 1
          /\ Len(calls) = 3
          /\ calls[2].fn = "midiOutLongMsg" /\ calls[2].arg = op.length
          /\ calls[3].fn = "midiOutUnprepareHeader" /\ calls[3].h = midi_handle
          /\ calls[2].res # MMSYSERR_NOERROR => ret = -1
     /\ calls[1].res = MMSYSERR_NOERROR => Count("midiOutLongMsg") = 1

C9_Witness ==
  /\ ValidSend /\ IsOpen /\ op.length > 3 /\ ret = -1
  /\ Len(calls) = 3 /\ calls[2].fn = "midiOutLongMsg"
  /\ calls[2].res # MMSYSERR_NOERROR
  /\ calls[3].fn = "midiOutUnprepareHeader"

\* C10: with a device open and a non-null payload of at least one byte, send
\* returns 0 exactly when every call that carries the message (the short
\* message; prepare and long message) reports success, and -1 otherwise.
Carrying == {"midiOutShortMsg", "midiOutPrepareHeader", "midiOutLongMsg"}

Delivered ==
  IF op.length <= 3 THEN Count("midiOutShortMsg") = 1
  ELSE Count("midiOutPrepareHeader") = 1 /\ Count("midiOutLongMsg") = 1

C10_SendStatus ==
  (ValidSend /\ IsOpen) =>
     /\ ret \in {0, -1}
     /\ ret = 0 <=>
          /\ Delivered
          /\ \A k \in DOMAIN calls :
               calls[k].fn \in Carrying => calls[k].res = MMSYSERR_NOERROR
     /\ ret = -1 <=>
          \E k \in DOMAIN calls :
            calls[k].fn \in Carrying /\ calls[k].res # MMSYSERR_NOERROR

C10_Witness ==
  /\ ValidSend /\ IsOpen /\ op.length > 3 /\ ret = -1
  /\ Len(calls) = 1 /\ calls[1].fn = "midiOutPrepareHeader"
  /\ calls[1].res # MMSYSERR_NOERROR

\* C11: with a device open, a send with length 0 or with a null data pointer
\* returns -1, makes no platform call and leaves the device open.
C11_EmptySendRejected ==
  [][(midi_handle # NULL /\ op'.name = "send" /\ (op'.isNull \/ op'.length = 0)) =>
       /\ ret' = -1
       /\ calls' = <<>>
       /\ midi_handle' = midi_handle
       /\ live' = live]_vars

C11_Witness ==
  /\ op.name = "send" /\ op.isNull /\ op.length = MaxLen
  /\ IsOpen /\ live = {midi_handle} /\ ret = -1 /\ calls = <<>>

\* C12: on the stub backends list_devices returns the empty sequence, open
\* and send return -1 for every argument, initialize returns 0, close and
\* deinitialize change nothing, and no call touches the platform or any
\* state a later call could read.
StubResult ==
  /\ op.name = "list" => listed = <<>>
  /\ op.name = "open" => ret = -1
  /\ op.name = "send" => ret = -1
  /\ op.name = "init" => ret = 0
  /\ calls = <<>> /\ midi_handle = NULL /\ live = {} /\ closed = {} /\ nextHandle = 1

StubStep ==
  /\ op'.name \in {"close", "deinit"} =>
       UNCHANGED <<midi_handle, devs, live, closed, nextHandle, ret, backend>>
  /\ UNCHANGED <<midi_handle, devs, live, closed, nextHandle, backend>>

C12_StubsRejectAll == [](backend \in Stubs => StubResult) /\ [][StubStep]_vars

C12_Witness ==
  /\ backend = "macos" /\ op.name = "open" /\ op.device_name = AUTO /\ ret = -1
  /\ Len(devs) = MaxDevs

\* C13: initialize returns 0 on every backend; on the Windows backend a
\* failed open of the configured device (no devices, or a midiOutOpen error)
\* is not propagated and leaves the adapter closed.
InitOpenFailed ==
  /\ backend = "windows" /\ op.name = "init"
  /\ OpensConfigured(op.enabled, op.device_name)
  /\ ~OpenedNow

C13_InitReturnsZero ==
  /\ op.name = "init" => ret = 0
  /\ InitOpenFailed => (midi_handle = NULL /\ live = {})

C13_Witness ==
  /\ InitOpenFailed /\ OpenFailed /\ ret = 0 /\ midi_handle = NULL
  /\ Count("midiOutClose") = 1

\* C14: close on an open handle calls midiOutReset and then midiOutClose on
\* it, once each, and clears the handle; with nothing open it makes no
\* platform call and changes nothing.  No handle is used by any call after
\* midiOutClose was called on it.
UsesHandle == {"midiOutReset", "midiOutClose", "midiOutShortMsg",
               "midiOutPrepareHeader", "midiOutLongMsg", "midiOutUnprepareHeader"}

CloseStep ==
  op'.name = "close" =>
    IF midi_handle # NULL
      THEN /\ Len(calls') = 2
           /\ calls'[1].fn = "midiOutReset" /\ calls'[1].h = midi_handle
           /\ calls'[2].fn = "midiOutClose" /\ calls'[2].h = midi_handle
           /\ midi_handle' = NULL
           /\ live' = live \ {midi_handle}
      ELSE /\ calls' = <<>>
           /\ UNCHANGED <<midi_handle, live, closed, nextHandle, devs, ret>>

NoUseAfterClose ==
  /\ \A k \in DOMAIN calls' : calls'[k].fn \in UsesHandle => calls'[k].h \notin closed
  /\ \A j \in DOMAIN calls', k \in DOMAIN calls' :
       (j < k /\ calls'[j].fn = "midiOutClose" /\ calls'[k].fn \in UsesHandle)
         => calls'[k].h # calls'[j].h

C14_CloseResetsThenCloses == [][CloseStep /\ NoUseAfterClose]_vars

C14_Witness ==
  /\ op.name = "close" /\ Len(calls) = 2 /\ midi_handle = NULL /\ live = {}
  /\ calls[1].fn = "midiOutReset" /\ calls[2].fn = "midiOutClose"
  /\ calls[2].h \in closed /\ Cardinality(closed) = MaxOpens

\* C15: in the scenario initialize, list_devices (n >= 1), open(device[0].name),
\* send of 3 bytes, close, deinitialize, at the end no handle is live and
\* every handle that was opened has been closed.
ScenarioOpened == {h \in 1..MaxOpens + 1 : h < nextHandle}

ScenarioEnd ==
  pc = 6 => (midi_handle = NULL /\ live = {} /\ ScenarioOpened \subseteq closed)

\* C15 as stated: every status-returning step but send returns 0.
C15_ScenarioAllZero ==
  /\ pc \in {1, 2, 3} => ret = 0
  /\ ScenarioEnd

\* C15 as amended: initialize returns 0, and open returns 0 if midiOutOpen
\* succeeds and -1 if it reports an error; send returns 0 or -1.
C15_ScenarioStatuses ==
  /\ pc \in {1, 2} => ret = 0
  /\ pc = 3 => /\ Count("midiOutOpen") = 1
               /\ ret = (IF OpenFailed THEN -1 ELSE 0)
               /\ ret = 0 => IsOpen
  /\ pc = 4 => ret \in {0, -1} /\ (ret = 0 => IsOpen)
  /\ ScenarioEnd

C15_Witness ==
  /\ pc = 6 /\ op.name = "deinit" /\ midi_handle = NULL /\ live = {}
  /\ Cardinality(closed) >= 2 /\ ret = 0

\* C16: for a device_name that is neither "auto" nor empty, open passes to
\* midiOutOpen the lowest platform index among the devices whose capability
\* query succeeded and whose name equals device_name.
Matches(device_name, d) ==
  {i \in 1..Len(d) : d[i].capsOk /\ WideToName(d[i].szPname) = device_name}

Lowest(S) == CHOOSE i \in S : \A j \in S : i <= j

NamedCase ==
  /\ op.name = "open" /\ op.device_name \notin {AUTO, EMPTY}
  /\ Matches(op.device_name, devs) # {}

C16_OpensLowestMatch ==
  NamedCase =>
    /\ Count("midiOutOpen") = 1
    /\ CallsOf("midiOutOpen")[1].arg = Lowest(Matches(op.device_name, devs)) - 1

C16_Witness ==
  /\ NamedCase /\ op.device_name = SYNTH /\ ret = 0
  /\ Len(devs) = MaxDevs /\ ~devs[1].capsOk /\ devs[2].capsOk
  /\ CallsOf("midiOutOpen")[1].arg = 1

\* C17: on the Windows backend initialize attempts an open exactly when MIDI
\* is enabled and the configured device name is non-empty ("auto" included,
\* which opens index 0); otherwise it makes no open, reset or close call and
\* leaves the handle as it was.
InitAttemptsOpen == Count("midiOutGetNumDevs") >= 2

InitStep ==
  op'.name = "init" =>
    /\ InitAttemptsOpen' <=> (op'.enabled /\ op'.device_name # EMPTY)
    /\ (op'.enabled /\ op'.device_name = AUTO /\ Len(devs) >= 1) =>
         /\ Count("midiOutOpen")' = 1
         /\ CallsOf("midiOutOpen")'[1].arg = 0
    /\ ~(op'.enabled /\ op'.device_name # EMPTY) =>
         /\ Count("midiOutOpen")' = 0
         /\ Count("midiOutReset")' = 0
         /\ Count("midiOutClose")' = 0
         /\ UNCHANGED <<midi_handle, live, closed, nextHandle>>

C17_InitOpensWhenConfigured == [][InitStep]_vars

C17_Witness ==
  /\ op.name = "init" /\ ~op.enabled /\ op.device_name = SYNTH
  /\ IsOpen /\ live = {midi_handle} /\ Count("midiOutOpen") = 0

\* C18: the handle goes from absent to present only through a midiOutOpen
\* that reports success, inside open or initialize; it goes from present to
\* absent or to another handle only in close, deinitialize, open or the open
\* of initialize; send and list_devices leave it unchanged.
HandleStep ==
  /\ (midi_handle = NULL /\ midi_handle' # NULL) =>
       /\ op'.name \in {"open", "init"}
       /\ OpenedNow'
       /\ midi_handle' = CallsOf("midiOutOpen")'[1].h
       /\ op'.name = "init" => (op'.enabled /\ op'.device_name # EMPTY)
  /\ (midi_handle # NULL /\ midi_handle' # midi_handle) =>
       /\ op'.name \in {"close", "deinit", "open", "init"}
       /\ op'.name = "init" => (op'.enabled /\ op'.device_name # EMPTY)
       /\ midi_handle' # NULL => OpenedNow'
  /\ op'.name \in {"send", "list", "hotplug"} =>
       UNCHANGED <<midi_handle, live, closed, nextHandle>>

C18_HandleTransitions == [][HandleStep]_vars

C18_Witness ==
  /\ op.name = "send" /\ ret = -1 /\ IsOpen /\ live = {midi_handle}
  /\ Len(calls) = 1 /\ calls[1].fn = "midiOutShortMsg"
  /\ calls[1].res # MMSYSERR_NOERROR /\ op.length = 1

\* C19: an open that returns -1 leaves the adapter closed, also when a
\* device was open before: the prior handle has been reset and closed, and
\* the sends that follow return -1.
FailedOpenStep ==
  /\ (op'.name = "open" /\ ret' = -1) =>
       /\ midi_handle' = NULL /\ live' = {}
       /\ midi_handle # NULL =>
            /\ calls'[1].fn = "midiOutReset" /\ calls'[1].h = midi_handle
            /\ calls'[2].fn = "midiOutClose" /\ calls'[2].h = midi_handle
            /\ midi_handle \in closed'
  /\ (op.name = "open" /\ ret = -1 /\ op'.name = "send") =>
       (ret' = -1 /\ calls' = <<>>)

C19_FailedOpenCloses == [][FailedOpenStep]_vars

C19_Witness ==
  /\ op.name = "open" /\ ret = -1 /\ midi_handle = NULL /\ live = {}
  /\ Count("midiOutClose") = 1 /\ ReportsNoDevices

\* C20: on the SysEx path a failed midiOutPrepareHeader returns -1 with no
\* midiOutLongMsg and no midiOutUnprepareHeader; un-prepare is called once
\* for each successful prepare, after it, and never otherwise.
PreparedOk ==
  {k \in DOMAIN calls :
     calls[k].fn = "midiOutPrepareHeader" /\ calls[k].res = MMSYSERR_NOERROR}

Unprepared == {k \in DOMAIN calls : calls[k].fn = "midiOutUnprepareHeader"}

C20_UnprepareMatchesPrepare ==
  /\ (ValidSend /\ IsOpen /\ op.length > 3 /\ calls[1].res # MMSYSERR_NOERROR) =>
       /\ ret = -1
       /\ Count("midiOutLongMsg") = 0
       /\ Count("midiOutUnprepareHeader") = 0
  /\ Cardinality(Unprepared) = Cardinality(PreparedOk)
  /\ \A u \in Unprepared : \E k \in PreparedOk : k < u /\ calls[k].h = calls[u].h

C20_Witness ==
  /\ ValidSend /\ IsOpen /\ op.length = MaxLen /\ ret = -1
  /\ calls[1].fn = "midiOutPrepareHeader" /\ calls[1].res # MMSYSERR_NOERROR
  /\ Count("midiOutUnprepareHeader") = 0 /\ Count("midiOutLongMsg") = 0
====
